---- MODULE Spec2Model ----
(***************************************************************************)
(* StockTracker: the Stock data-access class (models/stock.py) with its    *)
(* per-ticker parquet cache and its three transforms, and the two helpers  *)
(* of the dashboard (dashboard/app.py) that carry logic.                   *)
(*                                                                         *)
(* Floating point values are modelled as exact rationals <<n, d>> (d > 0)  *)
(* extended with the IEEE specials NaN = <<0, 0>>, +Inf = <<1, 0>> and     *)
(* -Inf = <<-1, 0>>; a missing cell of a pandas column is NaN.             *)
(***************************************************************************)
EXTENDS Integers, Sequences, FiniteSets, TLC

VARIABLES
    cache,       \* ticker -> the parquet file at {cache_dir}/{ticker}.parquet, or NoFile
    data,        \* Stock instance -> self.data (a table, or None)
    stored,      \* history: ticker -> what the first cache miss fetched and for which range
    series_map,  \* the dashboard's series_map, a sequence of <<ticker, series>> (ordered dict)
    last         \* the last call made: its arguments, outcome and return value

vars == <<cache, data, stored, series_map, last>>

----------------------------------------------------------------------------
(* Bounds of the model *)

\* rows of a table the provider returns
MaxRows == 2
\* rows of a table the transforms are applied to
MaxSeriesRows == 3
\* rows of a series handed to merge_on_common_dates
MaxMergeRows == 2

----------------------------------------------------------------------------
(* Floats *)

NaN == <<0, 0>>
PosInf == <<1, 0>>
NegInf == <<-1, 0>>

Abs(n) == IF n < 0 THEN -n ELSE n
Sign(n) == IF n < 0 THEN -1 ELSE IF n > 0 THEN 1 ELSE 0

RECURSIVE Gcd(_, _)
Gcd(a, b) == IF b = 0 THEN a ELSE Gcd(b, a % b)

\* the rational n/d in lowest terms, d > 0
Rat(n, d) ==
    LET g == Gcd(Abs(n), Abs(d))
    IN  <<Sign(d) * (n \div g), Abs(d) \div g>>

Num(n) == <<n, 1>>
IsFinite(v) == v[2] # 0
isna(v) == v = NaN

\* IEEE subtraction a - b
FSub(a, b) ==
    IF isna(a) \/ isna(b) THEN NaN
    ELSE IF ~IsFinite(a) /\ ~IsFinite(b) THEN (IF a = b THEN NaN ELSE a)
    ELSE IF ~IsFinite(a) THEN a
    ELSE IF ~IsFinite(b) THEN <<-b[1], 0>>
    ELSE Rat(a[1] * b[2] - b[1] * a[2], a[2] * b[2])

\* IEEE multiplication a * b
FMul(a, b) ==
    IF isna(a) \/ isna(b) THEN NaN
    ELSE IF ~IsFinite(a) \/ ~IsFinite(b)
         THEN (IF a[1] = 0 \/ b[1] = 0 THEN NaN ELSE <<Sign(a[1]) * Sign(b[1]), 0>>)
    ELSE Rat(a[1] * b[1], a[2] * b[2])

\* IEEE division a / b: x/0 is +-Inf, 0/0 is NaN, no exception (numpy semantics)
FDiv(a, b) ==
    IF isna(a) \/ isna(b) THEN NaN
    ELSE IF ~IsFinite(a) THEN (IF ~IsFinite(b) THEN NaN
                               ELSE <<a[1] * (IF b[1] < 0 THEN -1 ELSE 1), 0>>)
    ELSE IF ~IsFinite(b) THEN Num(0)
    ELSE IF b[1] = 0 THEN (IF a[1] = 0 THEN NaN ELSE <<Sign(a[1]), 0>>)
    ELSE Rat(a[1] * b[2], a[2] * b[1])

FLess(a, b) == a[1] * b[2] < b[1] * a[2]

----------------------------------------------------------------------------
(* Sequences *)

Range(s) == {s[i] : i \in 1..Len(s)}

RECURSIVE SelectIdx(_, _, _)
\* the positions i of 1..n, ascending from i0, for which keep[i]
SelectIdx(keep, i0, n) ==
    IF i0 > n THEN <<>>
    ELSE IF keep[i0] THEN <<i0>> \o SelectIdx(keep, i0 + 1, n)
    ELSE SelectIdx(keep, i0 + 1, n)

Pick(s, idx) == [k \in 1..Len(idx) |-> s[idx[k]]]

PosOf(s, x) == CHOOSE i \in 1..Len(s) : s[i] = x

RECURSIVE SortAsc(_)
\* the elements of a set of integers, ascending
SortAsc(S) ==
    IF S = {} THEN <<>>
    ELSE LET m == CHOOSE x \in S : \A y \in S : x <= y
         IN  <<m>> \o SortAsc(S \ {m})

SeqsUpTo(S, n) == UNION {[1..k -> S] : k \in 0..n}
IncSeqs(S, n) == {s \in SeqsUpTo(S, n) : \A i \in 1..(Len(s) - 1) : s[i] < s[i + 1]}
DistinctSeqs(S, n) == {s \in SeqsUpTo(S, n) : \A i, j \in 1..Len(s) : i # j => s[i] # s[j]}

----------------------------------------------------------------------------
(* Dates, tables and series *)

None == [type |-> "None"]
NoFile == [type |-> "NoFile"]

\* a pd.Timestamp / datetime.date value
Timestamp(y, m, d) == [type |-> "Timestamp", year |-> y, month |-> m, day |-> d]
\* a 'YYYY-MM-DD' string
DateStr(y, m, d) == [type |-> "str", s |-> <<y, m, d>>]

\* trading dates, as yyyymmdd
Dates == {20210104, 20210601, 20220103, 20220601}
DateKey(y, m, d) == y * 10000 + m * 100 + d
YearOf(date) == date \div 10000

Today == Timestamp(2022, 7, 1)

\* a DataFrame: column labels, the date index, and one value sequence per column
DataFrame(cols, idx, vals) == [type |-> "DataFrame", columns |-> cols, index |-> idx, vals |-> vals]
\* a Series
Series(name, idx, vals) == [type |-> "Series", name |-> name, index |-> idx, values |-> vals]

TablesOver(colLists, n, V) ==
    UNION {UNION {{DataFrame(cl, idx, v) : v \in [1..Len(cl) -> [1..Len(idx) -> V]]}
                  : idx \in IncSeqs(Dates, n)} : cl \in colLists}

\* df[column]
Column(df, column) ==
    Series(column, df.index, df.vals[PosOf(df.columns, column)])

\* series.dropna()
dropna(s) ==
    LET keep == SelectIdx([i \in 1..Len(s.values) |-> ~isna(s.values[i])], 1, Len(s.values))
    IN  Series(s.name, Pick(s.index, keep), Pick(s.values, keep))

\* df.rename(columns={old: new})
rename(df, old, new) ==
    DataFrame([i \in 1..Len(df.columns) |-> IF df.columns[i] = old THEN new ELSE df.columns[i]],
              df.index, df.vals)

----------------------------------------------------------------------------
(* The parquet cache file: pandas writes the index as one more column,     *)
(* named in the file's pandas metadata, and restores it on reading.        *)

IndexColumn == "__index_level_0__"

to_parquet(df) ==
    [type |-> "parquet",
     schema |-> df.columns \o <<IndexColumn>>,
     chunks |-> df.vals \o <<df.index>>,
     index_columns |-> <<IndexColumn>>]

\* mutant: the index column is read back as one more data column
read_parquet_index_kept(file) ==
    LET ip == PosOf(file.schema, file.index_columns[1])
    IN  DataFrame(file.schema, file.chunks[ip], file.chunks)

read_parquet(file) ==
    LET ip == PosOf(file.schema, file.index_columns[1])
        keep == SelectIdx([i \in 1..Len(file.schema) |-> i # ip], 1, Len(file.schema))
    IN  DataFrame(Pick(file.schema, keep), file.chunks[ip], Pick(file.chunks, keep))

----------------------------------------------------------------------------
(* The remote provider (yfinance), consumed and not defined by the program: *)
(* for a ticker and a date range it returns some table whose rows lie in    *)
(* [start, end), possibly with no rows, or it fails.                        *)

ColumnLists == {<<>>, <<"Close">>, <<"Adj Close", "Close">>, <<"Open">>}
ProviderPrices == {NaN, Num(1), Num(2)}
ProviderTables == TablesOver(ColumnLists, MaxRows, ProviderPrices)

\* ts.strftime('%Y-%m-%d')
strftime(ts) == DateStr(ts.year, ts.month, ts.day)
\* str(d) of a datetime.date
str(d) == DateStr(d.year, d.month, d.day)
StrKey(st) == DateKey(st.s[1], st.s[2], st.s[3])

yf_download(ticker, start, end) ==
    {df \in ProviderTables :
        \A i \in 1..Len(df.index) : StrKey(start) <= df.index[i] /\ df.index[i] < StrKey(end)}

----------------------------------------------------------------------------
(* class Stock *)

Tickers == {"AAPL"}
Stocks == {"s1"}
TickerOf(s) == "AAPL"

\* the outcome of a call: how it ended, what it returned, how often it called the provider
Outcome(o, r, f) == [outcome |-> o, result |-> r, fetched |-> f]

\* mutant: a failed fetch leaves an empty table at the cache path
load_data_caches_failure(file, cur, ticker, years, start, end) ==
    LET defaulted == start = None /\ end = None
        end1 == IF defaulted THEN Today ELSE end
        start1 == IF defaulted THEN Timestamp(end1.year - years, 1, 1) ELSE start
        R(o, d, f, n, got) == [outcome |-> o, data |-> d, file |-> f, fetched |-> n,
                               start |-> start1, end |-> end1, provided |-> got]
    IN  IF file # NoFile
        THEN {R("ok", read_parquet(file), file, 0, None)}
        ELSE IF start1.type # "Timestamp" \/ end1.type # "Timestamp"
        THEN {R("AttributeError", cur, file, 0, None)}
        ELSE {R("FetchError", cur, to_parquet(DataFrame(<<>>, <<>>, <<>>)), 1, None)}
             \cup {LET df == rename(got, "Adj Close", "adj_close")
                   IN  R("ok", df, to_parquet(df), 1, got)
                   : got \in yf_download(ticker, strftime(start1), strftime(end1))}

\* Stock.load_data: the possible results of one call on a Stock of `ticker` holding
\* `cur`, with `file` at its cache path: how it ended, self.data and the cache file
\* afterwards, the number of provider calls, the effective date range, and (for the
\* history) the table the provider returned
load_data(file, cur, ticker, years, start, end) ==
    LET defaulted == start = None /\ end = None
        end1 == IF defaulted THEN Today ELSE end
        start1 == IF defaulted THEN Timestamp(end1.year - years, 1, 1) ELSE start
        R(o, d, f, n, got) == [outcome |-> o, data |-> d, file |-> f, fetched |-> n,
                               start |-> start1, end |-> end1, provided |-> got]
    IN  IF file # NoFile
        THEN {R("ok", read_parquet(file), file, 0, None)}
        ELSE IF start1.type # "Timestamp" \/ end1.type # "Timestamp"
        THEN {R("AttributeError", cur, file, 0, None)}
        ELSE {R("FetchError", cur, file, 1, None)}
             \cup {LET df == rename(got, "Adj Close", "adj_close")
                   IN  R("ok", df, to_parquet(df), 1, got)
                   : got \in yf_download(ticker, strftime(start1), strftime(end1))}

\* mutant: the guard tests only that data is loaded, and pandas raises KeyError
rebase_unguarded_column(df, column, base) ==
    IF df = None
    THEN Outcome("ValueError", None, 0)
    ELSE IF column \notin Range(df.columns)
    THEN Outcome("KeyError", None, 0)
    ELSE LET series == dropna(Column(df, column))
         IN  IF Len(series.values) = 0
             THEN Outcome("IndexError", None, 0)
             ELSE Outcome("ok",
                          Series(series.name, series.index,
                                 [i \in 1..Len(series.values) |->
                                     FMul(FDiv(series.values[i], series.values[1]), base)]),
                          0)

\* Stock.rebase
rebase(df, column, base) ==
    IF df = None \/ column \notin Range(df.columns)
    THEN Outcome("ValueError", None, 0)
    ELSE LET series == dropna(Column(df, column))
         IN  IF Len(series.values) = 0
             THEN Outcome("IndexError", None, 0)
             ELSE Outcome("ok",
                          Series(series.name, series.index,
                                 [i \in 1..Len(series.values) |->
                                     FMul(FDiv(series.values[i], series.values[1]), base)]),
                          0)

\* mutant: every row is put in the bucket of the first row's year
groupby_first_year(s) ==
    [y \in {YearOf(s.index[1])} |-> s]

\* rebased.groupby(rebased.index.year), as the dict {year: group}
groupby_year(s) ==
    [y \in {YearOf(s.index[i]) : i \in 1..Len(s.index)} |->
        LET keep == SelectIdx([i \in 1..Len(s.index) |-> YearOf(s.index[i]) = y], 1, Len(s.index))
        IN  Series(s.name, Pick(s.index, keep), Pick(s.values, keep))]

DefaultBase == Num(100)

\* Stock.split_by_year
split_by_year(df, column) ==
    IF df = None \/ column \notin Range(df.columns)
    THEN Outcome("ValueError", None, 0)
    ELSE LET rebased == rebase(df, column, DefaultBase)
         IN  IF rebased.outcome # "ok" THEN rebased
             ELSE Outcome("ok", groupby_year(rebased.result), 0)

RECURSIVE FMin(_, _)
\* series.min(): NaN for an empty series
FMin(vals, i) ==
    IF Len(vals) = 0 THEN NaN
    ELSE IF i = Len(vals) THEN vals[i]
    ELSE LET m == FMin(vals, i + 1) IN IF FLess(vals[i], m) THEN vals[i] ELSE m

RECURSIVE FMax(_, _)
\* series.max(): NaN for an empty series
FMax(vals, i) ==
    IF Len(vals) = 0 THEN NaN
    ELSE IF i = Len(vals) THEN vals[i]
    ELSE LET m == FMax(vals, i + 1) IN IF FLess(m, vals[i]) THEN vals[i] ELSE m

\* Stock.normalize
normalize(df, column) ==
    IF df = None \/ column \notin Range(df.columns)
    THEN Outcome("ValueError", None, 0)
    ELSE LET series == dropna(Column(df, column))
             lo == FMin(series.values, 1)
             hi == FMax(series.values, 1)
         IN  Outcome("ok",
                     Series(series.name, series.index,
                            [i \in 1..Len(series.values) |->
                                FMul(FDiv(FSub(series.values[i], lo), FSub(hi, lo)), Num(100))]),
                     0)

----------------------------------------------------------------------------
(* dashboard/app.py *)

DefaultYears == 5

\* df.loc[lo:hi] on a date index: the rows with lo <= date <= hi
loc(df, lo, hi) ==
    LET keep == SelectIdx([i \in 1..Len(df.index) |->
                              StrKey(lo) <= df.index[i] /\ df.index[i] <= StrKey(hi)],
                          1, Len(df.index))
    IN  DataFrame(df.columns, Pick(df.index, keep),
                  [c \in 1..Len(df.columns) |-> Pick(df.vals[c], keep)])

\* load_adj_close_series: the possible results of one call, with `file` at the
\* ticker's cache path: how it ended, the series returned, the provider calls made,
\* and the cache file afterwards
load_adj_close_series(file, ticker, start_d, end_d) ==
    LET R(o, r, n, l) == [outcome |-> o, result |-> r, fetched |-> n, file |-> l.file,
                          data |-> l.data, provided |-> l.provided]
        \* the column policy on the loaded table
        Select(df) ==
            IF "Adj Close" \in Range(df.columns) THEN dropna(Column(df, "Adj Close"))
            ELSE IF "Close" \in Range(df.columns) THEN dropna(Column(df, "Close"))
            ELSE IF Len(df.columns) > 0 THEN dropna(Column(df, df.columns[1]))
            ELSE Series(ticker, <<>>, <<>>)
        Named(sr) == Series(ticker, sr.index, sr.values)
        first == load_data(file, None, ticker, DefaultYears, str(start_d), str(end_d))
        \* except TypeError: s.load_data(); s.data = s.data.loc[start:end]
        Fallback(r1) ==
            {IF r2.outcome = "ok"
             THEN [r2 EXCEPT !.data = loc(r2.data, str(start_d), str(end_d)),
                             !.fetched = r1.fetched + r2.fetched]
             ELSE [r2 EXCEPT !.fetched = r1.fetched + r2.fetched]
             : r2 \in load_data(r1.file, r1.data, ticker, DefaultYears, None, None)}
        loaded == UNION {IF r1.outcome = "TypeError" THEN Fallback(r1) ELSE {r1} : r1 \in first}
    IN  {IF r.outcome = "ok"
         THEN R("ok", Named(Select(r.data)), r.fetched, r)
         ELSE R(r.outcome, None, r.fetched, r)
         : r \in loaded}

\* mutant: the index is left in the order the join produced
sort_values_skipped(s) == s

RECURSIVE sort_values(_)
\* index.sort_values(): ascending, duplicates kept
sort_values(s) ==
    IF Len(s) = 0 THEN <<>>
    ELSE LET m == CHOOSE x \in Range(s) : \A y \in Range(s) : x <= y
             i == PosOf(s, m)
         IN  <<m>> \o sort_values(SubSeq(s, 1, i - 1) \o SubSeq(s, i + 1, Len(s)))

RECURSIVE InnerIndex(_, _)
\* the combined index of pd.concat(..., join="inner"): the first index, intersected
\* in turn with each of the first n others (order of the first kept)
InnerIndex(indexes, n) ==
    IF n = 1 THEN indexes[1]
    ELSE SelectSeq(InnerIndex(indexes, n - 1), LAMBDA d : d \in Range(indexes[n]))

\* merge_on_common_dates; series_dict is the ordered dict as a sequence of <<key, series>>
merge_on_common_dates(series_dict) ==
    IF Len(series_dict) = 0
    THEN DataFrame(<<>>, <<>>, <<>>)
    ELSE LET values == [k \in 1..Len(series_dict) |-> series_dict[k][2]]
             idx == sort_values(InnerIndex([k \in 1..Len(values) |-> values[k].index], Len(values)))
         IN  DataFrame([k \in 1..Len(values) |-> values[k].name],
                       idx,
                       [k \in 1..Len(values) |->
                           [i \in 1..Len(idx) |-> values[k].values[PosOf(values[k].index, idx[i])]]])

----------------------------------------------------------------------------
(* The state machine *)

Call(op, stock, args, o) ==
    [op |-> op, stock |-> stock, args |-> args,
     outcome |-> o.outcome, result |-> o.result, fetched |-> o.fetched]

NoCall == Call("init", "", <<>>, Outcome("ok", None, 0))

Init ==
    /\ cache = [t \in Tickers |-> NoFile]
    /\ data = [s \in Stocks |-> None]
    /\ stored = [t \in Tickers |-> None]
    /\ series_map = <<>>
    /\ last = NoCall

\* stock.load_data(years, start, end)
LoadData(s, years, start, end) ==
    LET t == TickerOf(s) IN
    \E r \in load_data(cache[t], data[s], t, years, start, end) :
        /\ cache' = [cache EXCEPT ![t] = r.file]
        /\ data' = [data EXCEPT ![s] = r.data]
        /\ stored' = IF cache[t] = NoFile /\ r.file # NoFile
                     THEN [stored EXCEPT ![t] = [table |-> r.data, provided |-> r.provided,
                                                 start |-> r.start, end |-> r.end]]
                     ELSE stored
        /\ last' = Call("load_data", s, <<r.start, r.end>>, Outcome(r.outcome, None, r.fetched))
        /\ UNCHANGED series_map

\* stock.rebase(column, base)
Rebase(s, column, base) ==
    /\ last' = Call("rebase", s, <<column, base>>, rebase(data[s], column, base))
    /\ UNCHANGED <<cache, data, stored, series_map>>

\* stock.split_by_year(column)
SplitByYear(s, column) ==
    /\ last' = Call("split_by_year", s, <<column>>, split_by_year(data[s], column))
    /\ UNCHANGED <<cache, data, stored, series_map>>

\* stock.normalize(column)
Normalize(s, column) ==
    /\ last' = Call("normalize", s, <<column>>, normalize(data[s], column))
    /\ UNCHANGED <<cache, data, stored, series_map>>

\* load_adj_close_series(ticker, start_d, end_d), on a Stock of its own
LoadAdjCloseSeries(t, start_d, end_d) ==
    \E r \in load_adj_close_series(cache[t], t, start_d, end_d) :
        /\ cache' = [cache EXCEPT ![t] = r.file]
        /\ stored' = IF cache[t] = NoFile /\ r.file # NoFile
                     THEN [stored EXCEPT ![t] = [table |-> r.data, provided |-> r.provided,
                                                 start |-> start_d, end |-> end_d]]
                     ELSE stored
        /\ last' = Call("load_adj_close_series", "", <<t>>, r)
        /\ UNCHANGED <<data, series_map>>

\* merge_on_common_dates(series_map)
MergeOnCommonDates ==
    /\ last' = Call("merge_on_common_dates", "", <<>>,
                    Outcome("ok", merge_on_common_dates(series_map), 0))
    /\ UNCHANGED <<cache, data, stored, series_map>>

(* Arguments *)
YearsArgs == {0, 1}
StartArgs == {None, Timestamp(2021, 1, 1)}
EndArgs == {None, Timestamp(2022, 1, 1)}
StartDates == {Timestamp(2021, 7, 1)}
ColumnArgs == {"Close", "Volume"}
Bases == {Num(0), Num(1), Num(100)}

Next ==
    \/ \E s \in Stocks, y \in YearsArgs, st \in StartArgs, en \in EndArgs : LoadData(s, y, st, en)
    \/ \E s \in Stocks, c \in ColumnArgs : Rebase(s, c, DefaultBase)
    \/ \E s \in Stocks, c \in ColumnArgs : SplitByYear(s, c)
    \/ \E s \in Stocks, c \in ColumnArgs : Normalize(s, c)
    \/ \E t \in Tickers, sd \in StartDates : LoadAdjCloseSeries(t, sd, Today)

Spec == Init /\ [][Next]_vars

----------------------------------------------------------------------------
(* The transforms on any loaded table: the Stock has loaded a table with a *)
(* Close column, which is also what its cache file holds.                  *)

TransformPrices == {NaN, Num(0), Num(1), Num(2), Num(3)}
TransformTables == TablesOver({<<"Close">>}, MaxSeriesRows, TransformPrices)

InitT ==
    \E df \in TransformTables :
        /\ cache = [t \in Tickers |-> to_parquet(df)]
        /\ data = [s \in Stocks |-> df]
        /\ stored = [t \in Tickers |-> [table |-> df, provided |-> df,
                                        start |-> Timestamp(2021, 1, 1), end |-> Today]]
        /\ series_map = <<>>
        /\ last = NoCall

NextT ==
    \/ \E s \in Stocks, c \in ColumnArgs, b \in Bases : Rebase(s, c, b)
    \/ \E s \in Stocks, c \in ColumnArgs : SplitByYear(s, c)
    \/ \E s \in Stocks, c \in ColumnArgs : Normalize(s, c)

SpecT == InitT /\ [][NextT]_vars

----------------------------------------------------------------------------
(* merge_on_common_dates on any map of up to three series with unique     *)
(* dates in any order; a ticker's price on a date is the same in whatever  *)
(* series it appears, and differs between dates and between tickers.       *)

MergePrice(k, d) == Num(10 * k + Cardinality({e \in Dates : e <= d}))
SeriesOver(name, k, n) ==
    {Series(name, idx, [i \in 1..Len(idx) |-> MergePrice(k, idx[i])])
     : idx \in DistinctSeqs(Dates, n)}
SeriesMaps ==
    {<<>>}
    \cup {<<<<"AAPL", a>>>> : a \in SeriesOver("AAPL", 1, MaxMergeRows)}
    \cup {<<<<"AAPL", a>>, <<"MSFT", b>>>> :
            a \in SeriesOver("AAPL", 1, MaxMergeRows), b \in SeriesOver("MSFT", 2, MaxMergeRows)}
    \cup {<<<<"AAPL", a>>, <<"MSFT", b>>, <<"AMZN", c>>>> :
            a \in SeriesOver("AAPL", 1, MaxMergeRows), b \in SeriesOver("MSFT", 2, MaxMergeRows),
            c \in SeriesOver("AMZN", 3, MaxMergeRows)}

InitM ==
    /\ cache = [t \in Tickers |-> NoFile]
    /\ data = [s \in Stocks |-> None]
    /\ stored = [t \in Tickers |-> None]
    /\ series_map \in SeriesMaps
    /\ last = NoCall

NextM == MergeOnCommonDates

SpecM == InitM /\ [][NextM]_vars

----------------------------------------------------------------------------
(* Properties *)

Transforms == {"rebase", "normalize", "split_by_year"}
KeyOf(ts) == DateKey(ts.year, ts.month, ts.day)
\* the ticker a load was made for
LoadedTicker(c) ==
    IF c.op = "load_data" THEN TickerOf(c.stock)
    ELSE IF c.op = "load_adj_close_series" THEN c.args[1]
    ELSE ""
\* the column a transform was called on, when it is a column of the Stock's table
CalledOnColumn(c) ==
    /\ c.op \in Transforms
    /\ data[c.stock] # None
    /\ c.args[1] \in Range(data[c.stock].columns)
\* the positions of the non-missing values of a series
NonMissing(sr) == {i \in 1..Len(sr.values) : ~isna(sr.values[i])}

\* C1: once a ticker has a cache entry, no call changes the entry or calls the
\* provider, and every load_data for that ticker, whatever its years/start/end,
\* succeeds and leaves in self.data exactly the table the first miss stored.
C1_CacheNeverRefreshes ==
    [][\A t \in Tickers : cache[t] # NoFile =>
          /\ cache'[t] = cache[t]
          /\ LoadedTicker(last') = t => last'.fetched = 0
          /\ (last'.op = "load_data" /\ LoadedTicker(last') = t) =>
                (last'.outcome = "ok" /\ data'[last'.stock] = stored[t].table)]_vars

\* a load_data served from the cache although it asked for a range starting before
\* the range the stored, non-empty table was fetched for
C1_Witness ==
    /\ last.op = "load_data" /\ last.outcome = "ok" /\ last.fetched = 0
    /\ last.args[1].type = "Timestamp"
    /\ LET st == stored[TickerOf(last.stock)]
       IN  /\ st # None
           /\ Len(st.table.index) > 0
           /\ KeyOf(last.args[1]) < KeyOf(st.start)
           /\ data[last.stock] = st.table

\* C2: a load_data whose fetch failed surfaces the failure after exactly one provider
\* call, there was and is no cache entry for the ticker, self.data is what it was, and
\* the next load_data for the ticker calls the provider again.
C2_FetchFailurePropagates ==
    [][(last'.op = "load_data" /\ last'.outcome = "FetchError") =>
          LET s == last'.stock
              t == TickerOf(s)
          IN  /\ last'.fetched = 1
              /\ cache[t] = NoFile /\ cache'[t] = NoFile
              /\ data'[s] = data[s]
              /\ \A y \in YearsArgs :
                    \A r \in load_data(cache'[t], data'[s], t, y, None, None) : r.fetched = 1]_vars

C2_Witness ==
    /\ last.op = "load_data" /\ last.outcome = "FetchError" /\ last.fetched = 1
    /\ cache[TickerOf(last.stock)] = NoFile
    /\ data[last.stock] = None

\* C3: rebase, normalize and split_by_year raise the data-not-loaded error, return
\* nothing and change no state when the Stock holds no table or the column is not
\* one of the table's; and a load_data that fails leaves the Stock without a table
\* if it had none.
C3_TransformsNeedLoadedColumn ==
    [][/\ (last'.op \in Transforms
           /\ (data[last'.stock] = None
               \/ last'.args[1] \notin Range(data[last'.stock].columns))) =>
              (/\ last'.outcome = "ValueError"
               /\ last'.result = None
               /\ UNCHANGED <<cache, data, stored>>)
       /\ (last'.op = "load_data" /\ last'.outcome # "ok") =>
              data'[last'.stock] = data[last'.stock]]_vars

\* a transform refused on a loaded table that lacks the column
C3_Witness ==
    /\ last.op \in Transforms /\ last.outcome = "ValueError"
    /\ data[last.stock] # None
    /\ Len(data[last.stock].columns) > 0
    /\ last.args[1] \notin Range(data[last.stock].columns)

\* C4: when the column has a non-missing value, rebase(C, base) returns a series whose
\* first value is exactly base and whose index is the dates of the non-missing rows
\* in their original order.
C4_RebaseFirstIsBase ==
    (last.op = "rebase" /\ CalledOnColumn(last)
     /\ NonMissing(Column(data[last.stock], last.args[1])) # {}) =>
        LET col == Column(data[last.stock], last.args[1])
        IN  /\ last.outcome = "ok"
            /\ last.result.values[1] = last.args[2]
            /\ last.result.index = Pick(col.index, SortAsc(NonMissing(col)))

\* C5: in the mapping split_by_year returns, every year's sub-series has the value
\* 100 at its first row. (Stated for columns without a zero, where rebasing each
\* year on its own is defined.)
C5_EachYearRebased ==
    (last.op = "split_by_year" /\ last.outcome = "ok"
     /\ Num(0) \notin Range(data[last.stock].vals[1])) =>
        \A y \in DOMAIN last.result : last.result[y].values[1] = Num(100)

\* the ordered column policy applied to the table the provider returned
ColumnPolicy(df, ticker) ==
    LET named(sr) == Series(ticker, sr.index, sr.values)
    IN  IF "Adj Close" \in Range(df.columns) THEN named(dropna(Column(df, "Adj Close")))
        ELSE IF "Close" \in Range(df.columns) THEN named(dropna(Column(df, "Close")))
        ELSE IF Len(df.columns) > 0 THEN named(dropna(Column(df, df.columns[1])))
        ELSE Series(ticker, <<>>, <<>>)

\* C6: the series load_adj_close_series returns is the ordered column policy applied
\* to the table the provider returned for the ticker (Adjusted Close, else Close,
\* else the first column, else empty), missing values dropped, named by the ticker.
C6_AdjustedClosePolicy ==
    (last.op = "load_adj_close_series" /\ last.outcome = "ok") =>
        last.result = ColumnPolicy(stored[last.args[1]].provided, last.args[1])

\* C7: merge_on_common_dates of an empty map is the empty table; otherwise the
\* result's dates are exactly the dates common to all input series, ascending, with
\* one column per input, named after it and holding its value at each date.
C7_MergeIsIntersection ==
    last.op = "merge_on_common_dates" =>
        LET r == last.result
            n == Len(series_map)
            inp(k) == series_map[k][2]
        IN  IF n = 0 THEN r = DataFrame(<<>>, <<>>, <<>>)
            ELSE /\ Range(r.index) = {d \in Dates : \A k \in 1..n : d \in Range(inp(k).index)}
                 /\ \A i \in 1..(Len(r.index) - 1) : r.index[i] < r.index[i + 1]
                 /\ Len(r.columns) = n /\ Len(r.vals) = n
                 /\ \A k \in 1..n :
                       /\ r.columns[k] = inp(k).name
                       /\ Len(r.vals[k]) = Len(r.index)
                       /\ \A i \in 1..Len(r.index) :
                             \E j \in 1..Len(inp(k).index) :
                                 inp(k).index[j] = r.index[i] /\ inp(k).values[j] = r.vals[k][i]

\* three series given out of date order, each with a date that is not common to
\* all, merged to their common dates
C7_Witness ==
    /\ last.op = "merge_on_common_dates"
    /\ Len(series_map) = 3
    /\ Len(last.result.index) >= 1
    /\ \A k \in 1..3 : /\ Len(series_map[k][2].index) > Len(last.result.index)
                       /\ series_map[k][2].index[1] > series_map[k][2].index[2]

RECURSIVE SumRows(_, _)
\* the number of rows in the buckets of the years Y
SumRows(buckets, Y) ==
    IF Y = {} THEN 0
    ELSE LET y == CHOOSE x \in Y : TRUE
         IN  Len(buckets[y].index) + SumRows(buckets, Y \ {y})

C9_MissPathCompletes ==
    last.op = "load_adj_close_series" =>
        \/ last.outcome = "FetchError"
        \/ last.outcome = "ok" /\ cache[last.args[1]] # NoFile

\* C10: a series returned by rebase or normalize holds no undefined value (NaN, Inf):
\* a zero divisor or a zero range is raised or answered with a defined series.
C10_DegenerateHandled ==
    (last.op \in {"rebase", "normalize"} /\ last.outcome = "ok") =>
        \A i \in 1..Len(last.result.values) : IsFinite(last.result.values[i])

====
